---- MODULE Spec2Model ----
(***************************************************************************)
(* Model of minion/plugins/basic.py: the header checks AlivePlugin,        *)
(* XFrameOptionsPlugin, XContentTypeOptionsPlugin and CSPPlugin.           *)
(*                                                                         *)
(* A Python str is a sequence of one-character strings, so that upper(),   *)
(* split(), the regular expressions and urlsplit() are computed on the     *)
(* characters of the header value.  Python's None is the empty tuple None  *)
(* and a value that may be None is wrapped as Some(v) == <<v>>.            *)
(* A dict is a function whose DOMAIN is the set of its keys.               *)
(***************************************************************************)
EXTENDS Integers, Sequences, FiniteSets, TLC

\* ------------------------------------------------------------------ bounds
\* most directives in one CSP header value
MaxRules == 2
\* most source expressions in one CSP header value, over all its directives
MaxTokens == 3
\* most source expressions in a CSP header value written in the spaced style
MaxSpacedTokens == 1
\* most whitespace characters between ALLOW-FROM and the url
MaxWs == 2

\* --------------------------------------------------------- python builtins
LowerLetters ==
  <<"a","b","c","d","e","f","g","h","i","j","k","l","m","n","o","p","q","r","s","t","u","v","w","x","y","z">>

UpperLetters ==
  <<"A","B","C","D","E","F","G","H","I","J","K","L","M","N","O","P","Q","R","S","T","U","V","W","X","Y","Z">>

Digits == {"0","1","2","3","4","5","6","7","8","9"}

Whitespace == {" ", "\t", "\n", "\r", "\f"}

Range(s) == {s[i] : i \in DOMAIN s}

LowerLetterSet == Range(LowerLetters)

UpperLetterSet == Range(UpperLetters)

IsLower(c) == c \in LowerLetterSet

IsUpper(c) == c \in UpperLetterSet

IsAlpha(c) == IsLower(c) \/ IsUpper(c)

IsAlnum(c) == IsAlpha(c) \/ c \in Digits

IndexIn(c, letters) == CHOOSE i \in DOMAIN letters : letters[i] = c

ToUpper(c) == IF IsLower(c) THEN UpperLetters[IndexIn(c, LowerLetters)] ELSE c

ToLower(c) == IF IsUpper(c) THEN LowerLetters[IndexIn(c, UpperLetters)] ELSE c

\* str.upper()
upper(s) == [i \in DOMAIN s |-> ToUpper(s[i])]

\* str.lower()
lower(s) == [i \in DOMAIN s |-> ToLower(s[i])]

\* s[i:] and s[:i] with the 1-based positions of TLA+
From(s, i) == SubSeq(s, i, Len(s))

Upto(s, i) == SubSeq(s, 1, i)

StartsAt(s, sub, i) ==
  i + Len(sub) - 1 <= Len(s) /\ \A k \in DOMAIN sub : s[i + k - 1] = sub[k]

\* the least element of a set of numbers that is not empty
Least(S) == CHOOSE d \in S : \A e \in S : d <= e

\* str.find(sub, start): the first position >= start where sub occurs, 0 when
\* there is none (Python's -1)
Find(s, sub, start) ==
  LET at == {i \in start..Len(s) : StartsAt(s, sub, i)}
  IN  IF at = {} THEN 0 ELSE Least(at)

\* sub in s
Contains(s, sub) == Find(s, sub, 1) # 0

None == <<>>

Some(v) == <<v>>

\* bool(x) of an optional str: None and '' are false
Truthy(x) == x # None /\ Len(x[1]) > 0

RECURSIVE Concat(_)
Concat(ss) == IF ss = <<>> THEN <<>> ELSE Head(ss) \o Concat(Tail(ss))

\* ------------------------------------------------------- string constants
Str_ALLOW_FROM == <<"A","L","L","O","W","-","F","R","O","M">>

Str_ALLOW_FORM_COLON == <<"A","L","L","O","W","-","F","O","R","M",":">>

Str_DENY == <<"D","E","N","Y">>

Str_SAMEORIGIN == <<"S","A","M","E","O","R","I","G","I","N">>

Str_nosniff == <<"n","o","s","n","i","f","f">>

Str_http == <<"h","t","t","p">>

Str_https == <<"h","t","t","p","s">>

Str_none == <<"'","n","o","n","e","'">>

Str_star == <<"*">>

Str_self == <<"'","s","e","l","f","'">>

Str_unsafe_inline == <<"'","u","n","s","a","f","e","-","i","n","l","i","n","e","'">>

Str_unsafe_eval == <<"'","u","n","s","a","f","e","-","e","v","a","l","'">>

Str_https_colon_q == <<"'","h","t","t","p","s",":","'">>

Str_https_q == <<"'","h","t","t","p","s","'">>

Str_options == <<"o","p","t","i","o","n","s">>

Str_eval_script == <<"e","v","a","l","-","s","c","r","i","p","t">>

Str_inline_script == <<"i","n","l","i","n","e","-","s","c","r","i","p","t">>

\* ------------------------------------------------------- findings, reports
\* A finding: Summary is the summary template, args the header names and
\* messages substituted into it, toks the header values and tokens
\* substituted into the summary or the description.
Issue(summary, severity, args, toks) ==
  [Summary |-> summary, Severity |-> severity, args |-> args, toks |-> toks]

\* AbstractPlugin._format_report(key, ...) on the REPORTS table of a plugin
AliveReport(key, toks) ==
  IF key = "good" THEN Issue("Site is reachable", "Info", <<>>, toks)
  ELSE Issue("Site could not be reached", "Fatal", <<>>, toks)

XFOReport(key, toks) ==
  CASE key = "set" -> Issue("X-Frame-Options header is set properly", "Info", <<>>, toks)
    [] key = "invalid" -> Issue("Invalid X-Frame-Options header detected", "High", <<>>, toks)
    [] key = "not-set" -> Issue("X-Frame-Options header is not set", "High", <<>>, toks)

XCTOReport(key, toks) ==
  CASE key = "set" -> Issue("X-Content-Type-Options is set properly", "Info", <<>>, toks)
    [] key = "invalid" -> Issue("Invalid X-Content-Type-Options header detected", "High", <<>>, toks)
    [] key = "not-set" -> Issue("X-Content-Type-Options header is not set", "High", <<>>, toks)

\* The methods a plugin inherits: the two "emit finding(s)" primitives and the
\* report-template formatter.  Calling any other name raises AttributeError.
PluginMethods == {"report_issue", "report_issues", "_format_report"}

\* The outcome of a handler: where it ends, what it raised, what it reported
\* and what it returned.
Outcome(pc_, exc_, issues_, ret_) ==
  [pc |-> pc_, exc |-> exc_, issues |-> issues_, ret |-> ret_]

\* ------------------------------------------------------ urlparse.urlsplit
\* characters a scheme may consist of (urlparse.scheme_chars)
IsSchemeChar(c) == IsAlnum(c) \/ c \in {"+", "-", "."}

\* the first of the delimiters / ? # at or after start, Len(url) + 1 if none
NetlocDelim(url, start) ==
  LET found == {Find(url, <<c>>, start) : c \in {"/", "?", "#"}} \ {0}
  IN  IF found = {} THEN Len(url) + 1 ELSE Least(found)

\* urlparse._splitnetloc(url, 2), for a url that starts with //
splitnetloc(url) ==
  LET delim == NetlocDelim(url, 3)
  IN  [netloc |-> SubSeq(url, 3, delim - 1), rest |-> From(url, delim)]

\* the scheme urlsplit finds in front of the first colon, None when the text
\* before it is not a scheme or what follows is a port number
SplitScheme(url) ==
  LET i == Find(url, <<":">>, 1)
      rest == From(url, i + 1)
  IN  IF i > 1 /\ (\A k \in 1..(i - 1) : IsSchemeChar(url[k]))
              /\ (rest = <<>> \/ \E k \in DOMAIN rest : rest[k] \notin Digits)
      THEN Some(lower(Upto(url, i - 1)))
      ELSE None

\* url.split(c, 1) when c is in url
SplitOnce(url, c) ==
  LET i == Find(url, <<c>>, 1)
  IN  [head |-> Upto(url, i - 1), tail |-> From(url, i + 1)]

\* urlsplit after the fragment is split off: the query and the path, and the
\* test of the brackets of the netloc
UrlSplitQuery(scheme, netloc, url, fragment) ==
  [raised |-> (Contains(netloc, <<"[">>) /\ ~Contains(netloc, <<"]">>))
                \/ (Contains(netloc, <<"]">>) /\ ~Contains(netloc, <<"[">>)),
   scheme |-> scheme, netloc |-> netloc,
   path |-> IF Contains(url, <<"?">>) THEN SplitOnce(url, "?").head ELSE url,
   query |-> IF Contains(url, <<"?">>) THEN SplitOnce(url, "?").tail ELSE <<>>,
   fragment |-> fragment]

\* urlsplit after the netloc is split off: the fragment
UrlSplitFragment(scheme, netloc, url) ==
  IF Contains(url, <<"#">>)
  THEN UrlSplitQuery(scheme, netloc, SplitOnce(url, "#").head, SplitOnce(url, "#").tail)
  ELSE UrlSplitQuery(scheme, netloc, url, <<>>)

\* urlsplit after the scheme is split off: the netloc, when the rest starts
\* with //
UrlSplitNetloc(scheme, url) ==
  IF Len(url) >= 2 /\ Upto(url, 2) = <<"/", "/">>
  THEN UrlSplitFragment(scheme, splitnetloc(url).netloc, splitnetloc(url).rest)
  ELSE UrlSplitFragment(scheme, <<>>, url)

\* urlsplit with sch the scheme found in front of the first colon
UrlSplitScheme(sch, url) ==
  IF sch = None THEN UrlSplitNetloc(<<>>, url)
  ELSE UrlSplitNetloc(sch[1], From(url, Find(url, <<":">>, 1) + 1))

\* urlparse.urlsplit(url) of Python 2.7: raises ValueError("Invalid IPv6 URL")
\* when the netloc has one square bracket without the other
urlsplit(url) == UrlSplitScheme(SplitScheme(url), url)

\* ----------------------------------------------------- XFrameOptionsPlugin
\* re.match(r'(?P<tag>ALLOW-FROM)\s(?P<url>.+)', value): the group url, None
\* when there is no match.  The match starts at the first character, takes
\* one whitespace character and then every character up to a newline.
AllowFromUrl(value) ==
  LET n == Len(Str_ALLOW_FROM)
      rest == From(value, n + 2)
      nl == Find(rest, <<"\n">>, 1)
      url == IF nl = 0 THEN rest ELSE Upto(rest, nl - 1)
  IN  IF StartsAt(value, Str_ALLOW_FROM, 1) /\ Len(value) >= n + 1
         /\ value[n + 1] \in Whitespace /\ url # <<>>
      THEN Some(url)
      ELSE None

\* the checks of the url's parts (lines 145-149)
AllowFromUrlOk(parts) ==
  IF parts.query # <<>> \/ parts.fragment # <<>> THEN FALSE
  ELSE IF parts.scheme \notin {Str_http, Str_https} THEN FALSE
  ELSE TRUE

\* XFrameOptionsPlugin._allow_from_validator: "True", "False", or "ValueError"
\* when urlsplit raises
allow_from_validator(value0) ==
  LET value == upper(value0)
      m == AllowFromUrl(value)
  IN  IF Contains(value, Str_ALLOW_FORM_COLON) THEN "False"
      ELSE IF m = None THEN "False"
      ELSE IF urlsplit(m[1]).raised THEN "ValueError"
      ELSE IF AllowFromUrlOk(urlsplit(m[1])) THEN "True"
      ELSE "False"

\* which report the value of a present X-Frame-Options header gets
\* (lines 157-171), "ValueError" when the validator raises
XFOClassify(xfo_value) ==
  IF upper(xfo_value) \in {Str_DENY, Str_SAMEORIGIN} THEN "set"
  ELSE IF Contains(upper(xfo_value), Str_ALLOW_FROM)
       THEN CASE allow_from_validator(xfo_value) = "True" -> "set"
              [] allow_from_validator(xfo_value) = "False" -> "invalid"
              [] OTHER -> "ValueError"
  ELSE "invalid"

\* the name do_run calls to format the not-set report (line 173)
XFONotSetFormatter == "_format"

\* XFrameOptionsPlugin.do_run after the fetch
XFODoRun(hdrs) ==
  IF "x-frame-options" \in DOMAIN hdrs
  THEN LET xfo_value == hdrs["x-frame-options"]
           key == XFOClassify(xfo_value)
       IN  IF key = "ValueError" THEN Outcome("raised", "ValueError", <<>>, "None")
           ELSE Outcome("done", "none", <<XFOReport(key, <<xfo_value>>)>>, "None")
  ELSE IF XFONotSetFormatter \in PluginMethods
       THEN Outcome("done", "none", <<XFOReport("not-set", <<>>)>>, "None")
       ELSE Outcome("raised", "AttributeError", <<>>, "None")

\* ----------------------------------------------- XContentTypeOptionsPlugin
\* XCTONotSet with "value is None" in place of "not value"
XCTONotSetIsNone(value) == value = None

\* not value, for value = r.headers.get('x-content-type-options')
XCTONotSet(value) == ~Truthy(value)

\* XContentTypeOptionsPlugin.do_run after the fetch
XCTODoRun(hdrs) ==
  LET value == IF "x-content-type-options" \in DOMAIN hdrs
               THEN Some(hdrs["x-content-type-options"]) ELSE None
  IN  IF XCTONotSet(value)
      THEN Outcome("done", "none", <<XCTOReport("not-set", <<>>)>>, "None")
      ELSE IF lower(value[1]) = Str_nosniff
           THEN Outcome("done", "none", <<XCTOReport("set", <<value[1]>>)>>, "None")
           ELSE Outcome("done", "none", <<XCTOReport("invalid", <<value[1]>>)>>, "None")

\* ---------------------------------------------------- CSPPlugin._parse_csp
\* the repetition counts written in _url_regex
LabelMiddleMax == 61

TldMin == 2

TldMax == 6

\* the characters [A-Z], [A-Z0-9] and [A-Z0-9-] match under re.IGNORECASE
AlphaChars == LowerLetterSet \cup UpperLetterSet

AlnumChars == AlphaChars \cup Digits

LabelChars == AlnumChars \cup {"-"}

\* the characters of s from position p up to q - 1 are all in chars
AllChars(s, p, q, chars) == \A k \in p..(q - 1) : s[k] \in chars

\* one round of ((?:http|ftp)s?://|\*.)* from position p of the lower-cased
\* value (re.IGNORECASE)
UrlPrefixStep(s, p) ==
  {p + Len(pre) : pre \in {q \in {<<"h","t","t","p",":","/","/">>,
                                  <<"h","t","t","p","s",":","/","/">>,
                                  <<"f","t","p",":","/","/">>,
                                  <<"f","t","p","s",":","/","/">>} :
                             StartsAt(s, q, p)}}
  \cup (IF p + 1 <= Len(s) /\ s[p] = "*" /\ s[p + 1] # "\n" THEN {p + 2} ELSE {})

\* the ends of ((?:http|ftp)s?://|\*.)* from the positions S
RECURSIVE UrlPrefixEnds(_, _)
UrlPrefixEnds(s, S) ==
  LET N == S \cup UNION {UrlPrefixStep(s, p) : p \in S}
  IN  IF N = S THEN S ELSE UrlPrefixEnds(s, N)

\* one round of (?:[A-Z0-9](?:[A-Z0-9-]{0,61}[A-Z0-9])?\.) from position p
UrlLabelStep(s, p) ==
  {j + 2 : j \in {k \in p..(Len(s) - 1) :
                    /\ k - p + 1 <= LabelMiddleMax + 2
                    /\ s[p] \in AlnumChars /\ s[k] \in AlnumChars
                    /\ AllChars(s, p, k + 1, LabelChars)
                    /\ s[k + 1] = "."}}

\* the ends of (?:[A-Z0-9](?:[A-Z0-9-]{0,61}[A-Z0-9])?\.)* from the positions S
RECURSIVE UrlLabelsEnds(_, _)
UrlLabelsEnds(s, S) ==
  LET N == S \cup UNION {UrlLabelStep(s, p) : p \in S}
  IN  IF N = S THEN S ELSE UrlLabelsEnds(s, N)

\* the ends of \.? from the positions S
OptionalDot(s, S) == S \cup {e + 1 : e \in {x \in S : x <= Len(s) /\ s[x] = "."}}

\* (?:[A-Z]{2,6}\.?|[A-Z0-9-]{2,}\.?) from position p
UrlTldEnds(s, p) ==
  OptionalDot(s, {p + n : n \in {m \in TldMin..TldMax :
                                   p + m - 1 <= Len(s) /\ AllChars(s, p, p + m, AlphaChars)}}
                 \cup {p + n : n \in {m \in TldMin..Len(s) :
                                   p + m - 1 <= Len(s) /\ AllChars(s, p, p + m, LabelChars)}})

\* (?::\d+)? from position p
UrlPortEnds(s, p) ==
  {p} \cup {p + 1 + n : n \in {m \in 1..Len(s) :
                                 /\ p + m <= Len(s) /\ s[p] = ":"
                                 /\ AllChars(s, p + 1, p + m + 1, Digits)}}

\* (?:/?|[/?]\S+)$ matches the text of s from position p to its end
UrlTailMatches(s, p) ==
  \/ p = Len(s) + 1
  \/ p = Len(s) /\ s[p] = "/"
  \/ p < Len(s) /\ s[p] \in {"/", "?"} /\ \A k \in (p + 1)..Len(s) : s[k] \notin Whitespace

\* _url_regex.match(value) is not None.  The value is a token of str.split(),
\* so it holds no whitespace and $ is the end of the value.
UrlRegexMatches(value) ==
  LET s == lower(value)
      afterPrefix == UrlPrefixEnds(s, {1})
      afterLabels == UrlLabelsEnds(s, UNION {UrlLabelStep(s, p) : p \in afterPrefix})
      afterTld == UNION {UrlTldEnds(s, p) : p \in afterLabels}
      afterPort == UNION {UrlPortEnds(s, p) : p \in afterTld}
  IN  \E p \in afterPort : UrlTailMatches(s, p)

\* the position of the first character of s at or after i that is not
\* whitespace, Len(s) + 1 when there is none
SkipWs(s, i) ==
  LET at == {k \in i..Len(s) : s[k] \notin Whitespace}
  IN  IF at = {} THEN Len(s) + 1 ELSE Least(at)

\* the position of the first whitespace of s at or after i, Len(s) + 1 when
\* there is none
NextWs(s, i) ==
  LET at == {k \in i..Len(s) : s[k] \in Whitespace}
  IN  IF at = {} THEN Len(s) + 1 ELSE Least(at)

\* re.compile(r';\s*').split(csp)
RECURSIVE SplitRules(_)
SplitRules(csp) ==
  LET i == Find(csp, <<";">>, 1)
  IN  IF i = 0 THEN <<csp>>
      ELSE <<Upto(csp, i - 1)>> \o SplitRules(From(csp, SkipWs(csp, i + 1)))

\* rule.split()
RECURSIVE SplitWords(_)
SplitWords(rule) ==
  LET b == SkipWs(rule, 1)
      e == NextWs(rule, b)
  IN  IF b > Len(rule) THEN <<>>
      ELSE <<SubSeq(rule, b, e - 1)>> \o SplitWords(From(rule, e))

\* the keyword literals of line 499
CSPKeywords ==
  {Str_self, Str_unsafe_inline, Str_unsafe_eval, Str_https_colon_q, Str_https_q}

\* the test of line 497 on the expressions of the directive
TooManyValues(values) == Len(values) > 2

\* the result of scanning the expressions of one directive: the findings
\* reported and, when a ValueError was raised, its message
Scan(raised_, fmt_, toks_, issues_) ==
  [raised |-> raised_, fmt |-> fmt_, toks |-> toks_, issues |-> issues_]

\* the loop of lines 495-505 from the i-th expression, issues being the
\* findings reported so far
RECURSIVE ScanValues(_, _, _, _)
ScanValues(values, i, name, issues) ==
  IF i > Len(values) THEN Scan(FALSE, "", <<>>, issues)
  ELSE LET value == values[i]
       IN  IF value \in {Str_none, Str_star}
           THEN IF TooManyValues(values)
                THEN Scan(TRUE, "When %s is present, other values cannot co-exist with %s",
                          <<value, value>>, issues)
                ELSE ScanValues(values, i + 1, name, issues)
           ELSE IF value \notin CSPKeywords
           THEN IF ~UrlRegexMatches(value)
                THEN Scan(TRUE, "%s does not seem like a valid uri for %s",
                          <<value, name>>, issues)
                ELSE ScanValues(values, i + 1, name, issues)
           ELSE IF value = Str_unsafe_inline
           THEN ScanValues(values, i + 1, name,
                           Append(issues, Issue("CSP Rules allow unsafe-inline", "High", <<>>, <<>>)))
           ELSE IF value = Str_unsafe_eval
           THEN ScanValues(values, i + 1, name,
                           Append(issues, Issue("CSP Rules allow unsafe-eval", "High", <<>>, <<>>)))
           ELSE ScanValues(values, i + 1, name, issues)

\* AddOption with = in place of +=: a later occurrence overwrites the list
AddOptionOverwrite(options, a) ==
  [k \in DOMAIN options \cup {a[1]} |-> IF k = a[1] THEN Tail(a) ELSE options[k]]

\* options[a[0]] += a[1:] on the defaultdict(list) options (line 506)
AddOption(options, a) ==
  [k \in DOMAIN options \cup {a[1]} |->
     IF k = a[1]
     THEN (IF k \in DOMAIN options THEN options[k] ELSE <<>>) \o Tail(a)
     ELSE options[k]]

\* the dict without keys
EmptyDict == [k \in {} |-> <<>>]

\* the loop of lines 491-506 from the i-th rule
RECURSIVE ParseRules(_, _, _, _)
ParseRules(rules, i, options, issues) ==
  IF i > Len(rules)
  THEN [raised |-> FALSE, fmt |-> "", toks |-> <<>>, issues |-> issues, options |-> options]
  ELSE LET a == SplitWords(rules[i])
       IN  IF a = <<>> THEN ParseRules(rules, i + 1, options, issues)
           ELSE LET scan == ScanValues(Tail(a), 1, a[1], issues)
                IN  IF scan.raised
                    THEN [raised |-> TRUE, fmt |-> scan.fmt, toks |-> scan.toks,
                          issues |-> scan.issues, options |-> options]
                    ELSE ParseRules(rules, i + 1, AddOption(options, a), scan.issues)

\* CSPPlugin._parse_csp(csp)
parse_csp(csp) == ParseRules(SplitRules(csp), 1, EmptyDict, <<>>)

\* ------------------------------------------------------- CSPPlugin.do_run
GOOD_HEADERS == {"x-content-security-policy", "content-security-policy"}

BAD_HEADERS == {"x-content-security-policy-report-only", "content-security-policy-report-only"}

\* CSPPlugin._extract_csp_header(headers, keys_tuple): the name and the value,
\* both None when no key is a header; NameError when both keys are headers,
\* because line 473 reads the undefined name t
extract_csp_header(hdrs, keys_tuple) ==
  LET matches == DOMAIN hdrs \cap keys_tuple
  IN  IF Cardinality(matches) = 2
      THEN [raised |-> TRUE, name |-> None, value |-> None]
      ELSE IF matches # {}
      THEN LET name == CHOOSE k \in matches : TRUE
           IN  [raised |-> FALSE, name |-> Some(name), value |-> Some(hdrs[name])]
      ELSE [raised |-> FALSE, name |-> None, value |-> None]

\* what do_run of the CSP plugin leaves behind: the outcome, whether
\* _parse_csp was called and what it returned (None when it did not return)
CSPOutcome(pc_, exc_, issues_, parsed_, config_) ==
  [pc |-> pc_, exc |-> exc_, issues |-> issues_, ret |-> "None",
   parsed |-> parsed_, config |-> config_]

\* the findings of lines 541-546 on the parsed policy
CSPOptionsIssues(csp_config) ==
  LET csp_options == IF Str_options \in DOMAIN csp_config THEN csp_config[Str_options] ELSE <<>>
  IN  IF csp_options # <<>>
      THEN (IF Str_eval_script \in Range(csp_options)
            THEN <<Issue("CSP Rules allow eval-script", "High", <<>>, <<>>)>> ELSE <<>>)
        \o (IF Str_inline_script \in Range(csp_options)
            THEN <<Issue("CSP Rules allow inline-script", "High", <<>>, <<>>)>> ELSE <<>>)
      ELSE <<>>

\* CSPParseAndReport with the findings of _parse_csp held back until it
\* returns: a ValueError leaves the Malformed finding alone
CSPParseAndReportDeferred(csp_hname, csp) ==
  LET r == parse_csp(csp)
  IN  IF r.raised
      THEN CSPOutcome("done", "none",
                      <<Issue("Malformed %s header set: %s", "High",
                              <<csp_hname, r.fmt>>, r.toks)>>,
                      TRUE, None)
      ELSE IF DOMAIN r.options = {}
      THEN CSPOutcome("done", "none",
                      Append(r.issues, Issue("Malformed %s header set", "High",
                                             <<csp_hname>>, <<>>)),
                      TRUE, Some(r.options))
      ELSE CSPOutcome("done", "none", r.issues \o CSPOptionsIssues(r.options),
                      TRUE, Some(r.options))

\* lines 535-548: parse the policy and report on it
CSPParseAndReport(csp_hname, csp) ==
  LET r == parse_csp(csp)
  IN  IF r.raised
      THEN CSPOutcome("done", "none",
                      Append(r.issues, Issue("Malformed %s header set: %s", "High",
                                             <<csp_hname, r.fmt>>, r.toks)),
                      TRUE, None)
      ELSE IF DOMAIN r.options = {}
      THEN CSPOutcome("done", "none",
                      Append(r.issues, Issue("Malformed %s header set", "High",
                                             <<csp_hname>>, <<>>)),
                      TRUE, Some(r.options))
      ELSE CSPOutcome("done", "none", r.issues \o CSPOptionsIssues(r.options),
                      TRUE, Some(r.options))

\* CSPPlugin.do_run after the fetch
CSPDoRun(hdrs) ==
  LET good == extract_csp_header(hdrs, GOOD_HEADERS)
      bad == extract_csp_header(hdrs, BAD_HEADERS)
      csp == good.value
      csp_report_only == bad.value
  IN  IF good.raised \/ bad.raised
      THEN CSPOutcome("raised", "NameError", <<>>, FALSE, None)
      ELSE IF Truthy(csp) /\ Truthy(csp_report_only)
      THEN CSPOutcome("done", "none",
                      <<Issue("Both %s and %s headers set", "High",
                              <<good.name[1], bad.name[1]>>, <<>>)>>, FALSE, None)
      ELSE IF Truthy(csp_report_only)
      THEN CSPOutcome("done", "none",
                      <<Issue("%s header set", "High", <<bad.name[1]>>, <<>>)>>, FALSE, None)
      ELSE IF csp = None
      THEN CSPOutcome("done", "none",
                      <<Issue("No Content-Security-Policy header set", "High", <<>>, <<>>)>>,
                      FALSE, None)
      ELSE CSPParseAndReport(good.name[1], csp[1])

\* ------------------------------------------------------------ AlivePlugin
\* the handler of line 64 catches what the fetch of lines 60-61 raises
AliveCatches(outcome) == outcome \in {"bad_status", "net_error"}

\* AliveReturnValue without the return statement of line 67
AliveReturnValueNoAbort(at) == "None"

\* what do_run returns after it has reported the finding
AliveReturnValue(at) ==
  IF at = "alive_bad_reported" THEN "EXIT_STATE_ABORTED" ELSE "None"

\* ------------------------------------------------------------ RobotsPlugin
Str_text_plain == <<"t","e","x","t","/","p","l","a","i","n">>

\* robots_scanner.scanner.scan(body): a true value, a false value, or an
\* exception
ScanOutcomes == {"True", "False", "raises"}

\* 'text/plain' not in content_type.lower(), line 438
NotTextPlain(content_type) == ~Contains(lower(content_type), Str_text_plain)

\* lines 440-445: the scan of the body, with the handler of line 444
RobotsScanResult(scan) == IF scan \in {"raises", "False"} THEN "False" ELSE "True"

\* RobotsPlugin.validator(url), with fetch what minion.curly.get does with
\* the robots.txt url built from the scheme and the netloc of url, and resp
\* the response when there is one: the value returned, or the exception that
\* leaves the method.  Line 438 subscripts the headers, so a response without
\* the header raises KeyError.
RobotsValidator(url, fetch, resp) ==
  LET url_p == urlsplit(url)
  IN  IF url_p.raised THEN [exc |-> "ValueError", value |-> "None"]
      ELSE IF fetch # "ok" THEN [exc |-> "BadResponseError", value |-> "None"]
      ELSE IF resp.status # 200 THEN [exc |-> "none", value |-> "NOT-FOUND"]
      ELSE IF "content-type" \notin DOMAIN resp.headers
      THEN [exc |-> "KeyError", value |-> "None"]
      ELSE IF NotTextPlain(resp.headers["content-type"])
      THEN [exc |-> "none", value |-> "False"]
      ELSE [exc |-> "none", value |-> RobotsScanResult(resp.scan)]

\* RobotsPlugin.do_run, lines 448-452
RobotsDoRun(url, fetch, resp) ==
  LET result == RobotsValidator(url, fetch, resp)
  IN  IF result.exc # "none" THEN Outcome("raised", result.exc, <<>>, "None")
      ELSE IF result.value = "NOT-FOUND"
      THEN Outcome("done", "none", <<Issue("No robots.txt found", "Medium", <<>>, <<>>)>>, "None")
      ELSE IF result.value = "False"
      THEN Outcome("done", "none", <<Issue("Invalid robots.txt found", "Medium", <<>>, <<>>)>>,
                   "None")
      ELSE Outcome("done", "none", <<>>, "None")

\* ------------------------------------------------- the responses checked
\* minion.curly.get and raise_for_status: a response with a 2xx status, a
\* response with another status, or no response at all
TransportOutcomes == {"ok", "bad_status", "net_error"}

XCTOValues ==
  {<<>>, Str_nosniff, <<"N","O","S","N","I","F","F">>, <<"N","o","S","n","i","f","f">>,
   <<"n","o","s","n","i","f","f",";"," ","f","o","o">>, <<" ","n","o","s","n","i","f","f">>,
   <<"0">>}

XFOPlainValues ==
  {<<>>, Str_DENY, <<"d","e","n","y">>, <<"S","a","m","e","O","r","i","g","i","n">>,
   <<" ","D","E","N","Y">>, Str_nosniff, Str_ALLOW_FORM_COLON}

\* runs of at most n whitespace characters
WsRuns(n) == UNION {[1..k -> {" ", "\t"}] : k \in 0..n}

\* the parts an ALLOW-FROM header value is written from
AllowFromParts ==
  [pre : {<<>>, <<"x">>},
   tag : {Str_ALLOW_FROM, <<"a","l","l","o","w","-","f","r","o","m">>},
   ws : WsRuns(MaxWs),
   scheme : {<<>>, Str_http, Str_https, <<"f","t","p">>},
   authority : {<<>>, <<"/","/","a",".","b">>, <<"/","/","[">>},
   path : {<<>>, <<"/">>, <<"/","a","l","l","o","w","-","f","o","r","m",":">>},
   query : {None, Some(<<>>), Some(<<"x","=","1">>)},
   fragment : {None, Some(<<>>), Some(<<"f">>)}]

\* the url the parts spell
AllowFromPartsUrl(in) ==
  (IF in.scheme = <<>> THEN <<>> ELSE in.scheme \o <<":">>)
  \o in.authority \o in.path
  \o (IF in.query = None THEN <<>> ELSE <<"?">> \o in.query[1])
  \o (IF in.fragment = None THEN <<>> ELSE <<"#">> \o in.fragment[1])

\* the header value the parts spell
AllowFromValue(in) == in.pre \o in.tag \o in.ws \o AllowFromPartsUrl(in)

CSPNames == {<<"d","e","f","a","u","l","t","-","s","r","c">>, Str_options}

CSPTokens ==
  {Str_none, Str_self, Str_unsafe_inline, Str_unsafe_eval, Str_eval_script,
   <<"a",".","c","o","m">>}

\* the sum of the first i numbers of counts
RECURSIVE SumUpto(_, _)
SumUpto(counts, i) == IF i = 0 THEN 0 ELSE counts[i] + SumUpto(counts, i - 1)

\* the policy whose i-th directive has the name names[i] and the next
\* counts[i] source expressions of toks
CSPPolicyOf(names, counts, toks) ==
  [i \in DOMAIN names |->
     <<names[i]>> \o SubSeq(toks, SumUpto(counts, i - 1) + 1, SumUpto(counts, i))]

\* a separator between the items of a sequence of strings
RECURSIVE Join(_, _)
Join(ss, sep) ==
  IF ss = <<>> THEN <<>>
  ELSE IF Len(ss) = 1 THEN ss[1]
  ELSE ss[1] \o sep \o Join(Tail(ss), sep)

\* the header value that spells the policy: "tight" puts one space between
\* the words and ; between the directives, "spaced" two spaces between the
\* words, ; and a space between the directives and after the last one
CSPValue(in) ==
  IF in.style = "tight"
  THEN Join([i \in DOMAIN in.policy |-> Join(in.policy[i], <<" ">>)], <<";">>)
  ELSE Join([i \in DOMAIN in.policy |-> Join(in.policy[i], <<" ", " ">>)], <<";", " ">>)
       \o <<";", " ">>

\* the header a policy is sent in, by the style it is written in
CSPStyleHeader == [tight |-> "content-security-policy", spaced |-> "x-content-security-policy"]

\* most source expressions of a policy written in the style
CSPStyleTokens == [tight |-> MaxTokens, spaced |-> MaxSpacedTokens]


\* the values of the CSP headers of a response that has several of them, or
\* a report-only one
CSPOtherValues ==
  {<<>>, <<"d","e","f","a","u","l","t","-","s","r","c"," ","'","s","e","l","f","'">>}

\* the header dicts over the names in keys with values in vals
Dicts(keys, vals) == UNION {[P -> vals] : P \in SUBSET keys}

\* the targets of a robots.txt check
RobotsTargets == {<<"h","t","t","p",":","/","/","a",".","b","/","x","?","y">>, <<"h","t","t","p","s",":","/","/","a",".","b">>, <<"h","t","t","p",":","/","/","[">>}

\* the status codes of the response to the fetch of robots.txt
RobotsStatuses == {200, 204, 404}

\* the values of its content-type header
RobotsContentTypes ==
  {<<>>, Str_text_plain, <<"t","e","x","t","/","p","l","a","i","n",";"," ","c","h","a","r","s","e","t","=","u","t","f","-","8">>, <<"T","E","X","T","/","P","l","a","i","n">>, <<"t","e","x","t","/","h","t","m","l">>}

NoInput == [kind |-> "none"]

\* ----------------------------------------------------------------- state
VARIABLES
  plugin,      \* the plugin that runs
  entry,       \* the method of it that is called
  transport,   \* what the fetch of the target does
  headers,     \* r.headers, keyed by lower-case header name
  input,       \* the parts the header value under test was written from
  pc,          \* "start", a position inside do_run, "done" or "raised"
  exc,         \* the exception that left the method, "none" if none did
  issues,      \* the findings reported so far, in order
  ret,         \* the value the method returned
  parsed,      \* whether _parse_csp was called
  csp_config   \* what _parse_csp returned, None when it did not return

vars == <<plugin, entry, transport, headers, input, pc, exc, issues, ret, parsed, csp_config>>

Fresh ==
  /\ pc = "start" /\ exc = "none" /\ issues = <<>> /\ ret = "None"
  /\ parsed = FALSE /\ csp_config = None

InitAlive ==
  /\ plugin = "Alive" /\ entry = "do_run"
  /\ transport \in TransportOutcomes
  /\ headers = EmptyDict /\ input = NoInput

InitXFO ==
  /\ plugin = "XFrameOptions" /\ entry \in {"do_run", "_allow_from_validator"}
  /\ \/ /\ transport \in TransportOutcomes
        /\ headers = EmptyDict /\ input = NoInput
     \/ /\ transport = "ok"
        /\ \E v \in XFOPlainValues :
             /\ headers = [k \in {"x-frame-options"} |-> v]
             /\ input = [kind |-> "plain", value |-> v]
     \/ /\ transport = "ok"
        /\ \E in \in AllowFromParts :
             /\ headers = [k \in {"x-frame-options"} |-> AllowFromValue(in)]
             /\ input = [kind |-> "allow-from", parts |-> in]

InitXCTO ==
  /\ plugin = "XContentTypeOptions" /\ entry = "do_run"
  /\ transport \in TransportOutcomes
  /\ headers \in Dicts({"x-content-type-options"}, XCTOValues)
  /\ input = NoInput

\* one primary header, written from a policy of at most MaxRules directives
\* and as many source expressions as its style has
InitCSPPolicy ==
  /\ plugin = "CSP" /\ entry = "do_run"
  /\ transport = "ok"
  /\ \E style \in DOMAIN CSPStyleHeader, r \in 0..MaxRules :
       \E names \in [1..r -> CSPNames], counts \in [1..r -> 0..CSPStyleTokens[style]] :
         /\ SumUpto(counts, r) <= CSPStyleTokens[style]
         /\ \E toks \in [1..SumUpto(counts, r) -> CSPTokens] :
              /\ input = [kind |-> "policy", policy |-> CSPPolicyOf(names, counts, toks),
                          style |-> style]
              /\ headers = [k \in {CSPStyleHeader[style]} |-> CSPValue(input)]

\* any other set of CSP headers
InitCSPOther ==
  /\ plugin = "CSP" /\ entry = "do_run"
  /\ transport \in TransportOutcomes
  /\ headers \in Dicts(GOOD_HEADERS \cup BAD_HEADERS, CSPOtherValues)
  /\ ~(Cardinality(DOMAIN headers \cap GOOD_HEADERS) = 1 /\ DOMAIN headers \cap BAD_HEADERS = {})
  /\ input = NoInput

\* a robots.txt check: the target, and what the fetch of its robots.txt and
\* the scan of the body do
InitRobots ==
  /\ plugin = "Robots" /\ entry = "do_run"
  /\ transport \in {"ok", "net_error"}
  /\ headers \in Dicts({"content-type"}, RobotsContentTypes)
  /\ \E url \in RobotsTargets, status \in RobotsStatuses, scan \in ScanOutcomes :
       input = [kind |-> "robots", target |-> url, status |-> status, scan |-> scan]

Init ==
  /\ Fresh
  /\ (InitAlive \/ InitXFO \/ InitXCTO \/ InitCSPPolicy \/ InitCSPOther \/ InitRobots)

\* --------------------------------------------------------------- actions
\* the method ends as the outcome o says
Finish(o) ==
  /\ pc' = o.pc /\ exc' = o.exc /\ issues' = issues \o o.issues /\ ret' = o.ret
  /\ UNCHANGED <<plugin, entry, transport, headers, input>>

\* the fetch of a plugin other than Alive raised: do_run does not catch it
FetchRaised == Outcome("raised", "BadResponseError", <<>>, "None")

\* AlivePlugin.do_run, lines 59-66: fetch and report
AliveRequest ==
  /\ plugin = "Alive" /\ entry = "do_run" /\ pc = "start"
  /\ IF AliveCatches(transport)
     THEN Finish(Outcome("alive_bad_reported", "none", <<AliveReport("bad", <<>>)>>, "None"))
     ELSE Finish(Outcome("alive_good_reported", "none", <<AliveReport("good", <<>>)>>, "None"))
  /\ UNCHANGED <<parsed, csp_config>>

\* AlivePlugin.do_run, line 67 or the end of the method: return
AliveReturn ==
  /\ plugin = "Alive" /\ pc \in {"alive_good_reported", "alive_bad_reported"}
  /\ Finish(Outcome("done", "none", <<>>, AliveReturnValue(pc)))
  /\ UNCHANGED <<parsed, csp_config>>

\* XFrameOptionsPlugin.do_run
XFORun ==
  /\ plugin = "XFrameOptions" /\ entry = "do_run" /\ pc = "start"
  /\ \E o \in {IF transport = "ok" THEN XFODoRun(headers) ELSE FetchRaised} : Finish(o)
  /\ UNCHANGED <<parsed, csp_config>>

\* a call of XFrameOptionsPlugin._allow_from_validator on the header value
ValidatorCall ==
  /\ plugin = "XFrameOptions" /\ entry = "_allow_from_validator" /\ pc = "start"
  /\ "x-frame-options" \in DOMAIN headers
  /\ \E r \in {allow_from_validator(headers["x-frame-options"])} :
       Finish(IF r = "ValueError" THEN Outcome("raised", "ValueError", <<>>, "None")
              ELSE Outcome("done", "none", <<>>, r))
  /\ UNCHANGED <<parsed, csp_config>>

\* XContentTypeOptionsPlugin.do_run
XCTORun ==
  /\ plugin = "XContentTypeOptions" /\ entry = "do_run" /\ pc = "start"
  /\ \E o \in {IF transport = "ok" THEN XCTODoRun(headers) ELSE FetchRaised} : Finish(o)
  /\ UNCHANGED <<parsed, csp_config>>

\* CSPPlugin.do_run
CSPRun ==
  /\ plugin = "CSP" /\ entry = "do_run" /\ pc = "start"
  /\ \E o \in {IF transport = "ok" THEN CSPDoRun(headers)
                ELSE CSPOutcome("raised", "BadResponseError", <<>>, FALSE, None)} :
       /\ Finish(o)
       /\ parsed' = o.parsed
       /\ csp_config' = o.config

\* RobotsPlugin.do_run
RobotsRun ==
  /\ plugin = "Robots" /\ entry = "do_run" /\ pc = "start"
  /\ \E o \in {RobotsDoRun(input.target, transport,
                           [status |-> input.status, headers |-> headers,
                            scan |-> input.scan])} : Finish(o)
  /\ UNCHANGED <<parsed, csp_config>>

Next ==
  AliveRequest \/ AliveReturn \/ XFORun \/ ValidatorCall \/ XCTORun \/ CSPRun \/ RobotsRun

Spec == Init /\ [][Next]_vars

\* ---------------------------------------------------------------- claims
Last(seq) == seq[Len(seq)]

\* the run of the CSP check on one primary header written from a policy
CSPPolicyRun == plugin = "CSP" /\ input.kind = "policy" /\ pc # "start"

\* the source expressions of the policy, over all its directives
PolicyExpressions == UNION {Range(Tail(input.policy[i])) : i \in DOMAIN input.policy}

\* some directive of the policy holds 'none' or * and an expression other
\* than it
NoneWithOthers ==
  \E i \in DOMAIN input.policy :
    \E j, k \in 2..Len(input.policy[i]) :
      /\ input.policy[i][j] \in {Str_none, Str_star}
      /\ input.policy[i][k] # input.policy[i][j]

\* the last finding is the malformed-header finding with the given message
LastIsMalformed(fmt) ==
  /\ issues # <<>>
  /\ Last(issues).Summary = "Malformed %s header set: %s"
  /\ Last(issues).Severity = "High"
  /\ Last(issues).args[2] = fmt

\* C1: every primary CSP value in which a directive holds 'none' or *
\* together with another expression is rejected with the exclusivity error
\* and reported as a malformed header.  Stated for the values all of whose
\* expressions are valid on their own, so that no other parse error can come
\* first.
C1_NoneIsExclusive ==
  (CSPPolicyRun /\ NoneWithOthers
     /\ PolicyExpressions \subseteq (CSPTokens \ {Str_eval_script}))
  => (pc = "done"
      /\ LastIsMalformed("When %s is present, other values cannot co-exist with %s"))

\* a CSP header of each kind is present and no present CSP header is empty
BothKindsPresent ==
  /\ plugin = "CSP" /\ transport = "ok" /\ pc # "start"
  /\ DOMAIN headers \cap GOOD_HEADERS # {}
  /\ DOMAIN headers \cap BAD_HEADERS # {}
  /\ \A k \in DOMAIN headers : headers[k] # <<>>

\* C2: when a primary and a report-only CSP header are both present, the
\* check reports exactly one finding, the High "Both ... headers set", does
\* not call _parse_csp and ends without raising.  Stated for header values
\* that are not empty.
C2_BothHeadersOneFinding ==
  BothKindsPresent
  => (/\ pc = "done" /\ exc = "none" /\ ~parsed
      /\ Len(issues) = 1
      /\ issues[1].Summary = "Both %s and %s headers set"
      /\ issues[1].Severity = "High")

\* the policy has a directive named options that holds the token
OptionsHolds(token) ==
  \E i \in DOMAIN input.policy :
    input.policy[i][1] = Str_options /\ token \in Range(Tail(input.policy[i]))

\* C3: when the only CSP header is a primary one and its directive options
\* holds eval-script (inline-script), the check reports the High finding
\* "CSP Rules allow eval-script" ("CSP Rules allow inline-script").
C3_OptionsPostPass ==
  CSPPolicyRun
  => (/\ OptionsHolds(Str_eval_script)
         => Issue("CSP Rules allow eval-script", "High", <<>>, <<>>) \in Range(issues)
      /\ OptionsHolds(Str_inline_script)
         => Issue("CSP Rules allow inline-script", "High", <<>>, <<>>) \in Range(issues))

\* _parse_csp was called and raised, or returned an empty policy
ParsingFailed == parsed /\ (csp_config = None \/ DOMAIN csp_config[1] = {})

\* C4: with a primary CSP header present and no report-only header, the
\* check ends without raising whatever the value is, and when parsing fails
\* the last finding is a High "Malformed <name> header set" finding.
C4_ParseErrorsRecovered ==
  (/\ plugin = "CSP" /\ transport = "ok" /\ pc # "start"
   /\ DOMAIN headers \cap GOOD_HEADERS # {}
   /\ DOMAIN headers \cap BAD_HEADERS = {})
  => (/\ pc = "done" /\ exc = "none"
      /\ ParsingFailed
         => (/\ issues # <<>>
             /\ Last(issues).Summary \in {"Malformed %s header set",
                                           "Malformed %s header set: %s"}
             /\ Last(issues).Severity = "High"))

\* the directive names that occur more than once in the policy
RepeatedNames ==
  {input.policy[i][1] : i \in {j \in DOMAIN input.policy :
                                \E k \in DOMAIN input.policy : k # j /\ input.policy[k][1] = input.policy[j][1]}}

\* the expressions of the last directive of the policy with the name
LastOccurrence(name) ==
  Tail(input.policy[CHOOSE i \in DOMAIN input.policy :
                      /\ input.policy[i][1] = name
                      /\ \A k \in DOMAIN input.policy : input.policy[k][1] = name => k <= i])

\* the expressions of the directives of the policy with the name, in order
RECURSIVE AllOccurrencesFrom(_, _)
AllOccurrencesFrom(name, i) ==
  IF i > Len(input.policy) THEN <<>>
  ELSE (IF input.policy[i][1] = name THEN Tail(input.policy[i]) ELSE <<>>)
       \o AllOccurrencesFrom(name, i + 1)

\* _parse_csp returned a policy for a value written from the input policy
CSPParsed == CSPPolicyRun /\ pc = "done" /\ csp_config # None

\* C5 as claimed: for a directive name that occurs more than once in a value
\* that parses, the policy map holds only the expressions of the last
\* occurrence.
C5_LastOccurrenceOnly ==
  CSPParsed => \A name \in RepeatedNames : csp_config[1][name] = LastOccurrence(name)

\* C5 as amended: for a directive name that occurs more than once in a value
\* that parses, the policy map holds the expressions of all the occurrences,
\* concatenated in the order of the header.
C5_OccurrencesConcatenated ==
  CSPParsed => \A name \in RepeatedNames :
                 /\ name \in DOMAIN csp_config[1]
                 /\ csp_config[1][name] = AllOccurrencesFrom(name, 1)

\* a value that parses and repeats a name, each time with its own expression
C5_Witness ==
  /\ CSPParsed
  /\ \E name \in RepeatedNames :
       /\ Len(AllOccurrencesFrom(name, 1)) >= 2
       /\ LastOccurrence(name) # <<>>
       /\ LastOccurrence(name) # AllOccurrencesFrom(name, 1)
       /\ csp_config[1][name] = AllOccurrencesFrom(name, 1)

\* what C6 says the validator returns for a value written from the parts:
\* true exactly when the value is ALLOW-FROM, whitespace and a url that is
\* not empty, has the scheme http or https, no query and no fragment, and
\* ALLOW-FORM: is nowhere in it
C6_Expected(in) ==
  /\ in.pre = <<>>
  /\ ~Contains(upper(AllowFromValue(in)), Str_ALLOW_FORM_COLON)
  /\ Len(in.ws) >= 1
  /\ AllowFromPartsUrl(in) # <<>>
  /\ in.scheme \in {Str_http, Str_https}
  /\ in.query \in {None, Some(<<>>)}
  /\ in.fragment \in {None, Some(<<>>)}

\* C6: _allow_from_validator returns true if and only if the value is of the
\* accepted form, for every value.  Stated for the values with at most one
\* whitespace character after ALLOW-FROM.
C6_ValidatorIff ==
  (/\ plugin = "XFrameOptions" /\ entry = "_allow_from_validator" /\ pc # "start"
   /\ input.kind = "allow-from" /\ Len(input.parts.ws) <= 1)
  => (pc = "done" /\ (ret = "True" <=> C6_Expected(input.parts)))

\* C7: when the fetch succeeds and the response has no x-frame-options
\* header, the check reports exactly one finding, the High not-set finding,
\* and ends without raising.
C7_XFOAbsent ==
  (/\ plugin = "XFrameOptions" /\ entry = "do_run" /\ pc # "start"
   /\ transport = "ok" /\ "x-frame-options" \notin DOMAIN headers)
  => (/\ pc = "done" /\ exc = "none"
      /\ issues = <<Issue("X-Frame-Options header is not set", "High", <<>>, <<>>)>>)

\* the report C8 gives a present X-Frame-Options value
C8_ExpectedKey(value) ==
  IF \/ upper(value) \in {Str_DENY, Str_SAMEORIGIN}
     \/ Contains(upper(value), Str_ALLOW_FROM) /\ allow_from_validator(value) = "True"
  THEN "set"
  ELSE "invalid"

\* C8: for every value of a present x-frame-options header the check reports
\* exactly one finding: Set/Info for DENY, SAMEORIGIN and an ALLOW-FROM that
\* the validator accepts, Invalid/High for every other value.
C8_XFOPresent ==
  (/\ plugin = "XFrameOptions" /\ entry = "do_run" /\ pc # "start"
   /\ transport = "ok" /\ "x-frame-options" \in DOMAIN headers)
  => (/\ pc = "done" /\ exc = "none"
      /\ Len(issues) = 1
      /\ issues[1].Summary = XFOReport(C8_ExpectedKey(headers["x-frame-options"]), <<>>).Summary
      /\ issues[1].Severity = XFOReport(C8_ExpectedKey(headers["x-frame-options"]), <<>>).Severity)

XCTORan == plugin = "XContentTypeOptions" /\ transport = "ok" /\ pc # "start"

XCTOPresent == "x-content-type-options" \in DOMAIN headers

\* the check reported the one finding of REPORTS[key]
XCTOReported(key) ==
  /\ Len(issues) = 1
  /\ issues[1].Summary = XCTOReport(key, <<>>).Summary
  /\ issues[1].Severity = XCTOReport(key, <<>>).Severity

\* C10 as claimed: exactly one finding; NotSet/High if and only if the header
\* is absent, Set/Info when its value is nosniff in any casing, Invalid/High
\* for every other present value.
C10_NotSetIffAbsent ==
  XCTORan
  => (/\ pc = "done"
      /\ XCTOReported("not-set") <=> ~XCTOPresent
      /\ XCTOPresent
         => IF lower(headers["x-content-type-options"]) = Str_nosniff
            THEN XCTOReported("set") ELSE XCTOReported("invalid"))

\* C10 as amended: exactly one finding; NotSet/High if and only if the header
\* is absent or its value is empty, Set/Info when its value is nosniff in any
\* casing, Invalid/High for every other value that is not empty.
C10_NotSetIffAbsentOrEmpty ==
  XCTORan
  => (/\ pc = "done"
      /\ XCTOReported("not-set") <=> (~XCTOPresent \/ headers["x-content-type-options"] = <<>>)
      /\ (XCTOPresent /\ headers["x-content-type-options"] # <<>>)
         => IF lower(headers["x-content-type-options"]) = Str_nosniff
            THEN XCTOReported("set") ELSE XCTOReported("invalid"))

\* the header is present with an empty value and was reported as not set
C10_Witness ==
  /\ XCTORan /\ pc = "done" /\ XCTOPresent
  /\ headers["x-content-type-options"] = <<>>
  /\ XCTOReported("not-set")

\* a robots.txt check whose fetch of /robots.txt got a response
RobotsResponded ==
  plugin = "Robots" /\ transport = "ok" /\ ~urlsplit(input.target).raised /\ pc # "start"

RobotsFinding(summary) == <<Issue(summary, "Medium", <<>>, <<>>)>>

\* the findings the response calls for
RobotsExpected ==
  IF input.status # 200 THEN RobotsFinding("No robots.txt found")
  ELSE IF \/ "content-type" \notin DOMAIN headers
          \/ NotTextPlain(headers["content-type"])
          \/ input.scan \in {"False", "raises"}
  THEN RobotsFinding("Invalid robots.txt found")
  ELSE <<>>

\* C11: whatever the response to the fetch of /robots.txt is, the check ends
\* normally with at most one finding: "No robots.txt found" (Medium) when the
\* status is not 200; otherwise "Invalid robots.txt found" (Medium) when the
\* content type is not text/plain, the content-type header being absent
\* included, or when the scan returns false or raises; otherwise no finding.
C11_RobotsOneFinding ==
  RobotsResponded => pc = "done" /\ exc = "none" /\ Len(issues) <= 1 /\ issues = RobotsExpected

\* the source expressions of the policy from its i-th directive on, in the
\* order of the header, each with the expressions of its directive
RECURSIVE ExpressionsFrom(_)
ExpressionsFrom(i) ==
  IF i > Len(input.policy) THEN <<>>
  ELSE [k \in 1..(Len(input.policy[i]) - 1) |->
          [value |-> input.policy[i][k + 1], values |-> Tail(input.policy[i])]]
       \o ExpressionsFrom(i + 1)

\* the expression is one the parser rejects
IsParseError(e) ==
  IF e.value \in {Str_none, Str_star} THEN TooManyValues(e.values)
  ELSE e.value \notin CSPKeywords /\ ~UrlRegexMatches(e.value)

\* the expressions scanned before the first parse error, all when there is
\* none
ReachedExpressions ==
  LET es == ExpressionsFrom(1)
      errors == {k \in DOMAIN es : IsParseError(es[k])}
  IN  IF errors = {} THEN es ELSE SubSeq(es, 1, Least(errors) - 1)

PolicyHasParseError == \E k \in DOMAIN ExpressionsFrom(1) : IsParseError(ExpressionsFrom(1)[k])

\* one finding for each unsafe keyword of es, in the order of es
RECURSIVE UnsafeFindings(_)
UnsafeFindings(es) ==
  IF es = <<>> THEN <<>>
  ELSE (IF Head(es).value = Str_unsafe_inline
        THEN <<Issue("CSP Rules allow unsafe-inline", "High", <<>>, <<>>)>>
        ELSE IF Head(es).value = Str_unsafe_eval
        THEN <<Issue("CSP Rules allow unsafe-eval", "High", <<>>, <<>>)>>
        ELSE <<>>)
       \o UnsafeFindings(Tail(es))

\* C12: the run of the CSP check on a primary header reports one High
\* finding for each 'unsafe-inline' or 'unsafe-eval' expression scanned
\* before any parse error, in the order of the header; a later parse error
\* does not withdraw them and its Malformed finding comes after them, as the
\* last finding; a header without parse error that has a directive yields
\* these findings and no Malformed finding.
C12_UnsafeFindingsInOrder ==
  CSPPolicyRun =>
    LET unsafe == UnsafeFindings(ReachedExpressions)
    IN  /\ pc = "done"
        /\ Len(issues) >= Len(unsafe)
        /\ SubSeq(issues, 1, Len(unsafe)) = unsafe
        /\ IF PolicyHasParseError
           THEN /\ Len(issues) = Len(unsafe) + 1
                /\ Last(issues).Summary = "Malformed %s header set: %s"
           ELSE input.policy # <<>> => issues = unsafe

\* both unsafe keywords were reported in the order scanned, and then the
\* parse error of a later expression
C12_Witness ==
  /\ CSPPolicyRun /\ pc = "done"
  /\ Len(issues) = 3
  /\ issues[1].Summary = "CSP Rules allow unsafe-eval"
  /\ issues[2].Summary = "CSP Rules allow unsafe-inline"
  /\ issues[3].Summary = "Malformed %s header set: %s"
====
